---- MODULE Spec2Model ----
(***************************************************************************)
(* Gate verification of gaurd_ai: the FAISS face index (FaissStore), the   *)
(* face service (index_face, search_face, search_watchlist, delete_face),  *)
(* the visitor and watchlist services and the /gate/verify handler.        *)
(*                                                                         *)
(* Scores are cosine similarities in hundredths (0.35 is 35).  An image is *)
(* a face seen at some scale; DeepFace.represent yields an embedding that  *)
(* points in the direction of the face with the scale as its norm, and     *)
(* FaissStore.normalize divides the norm out.                              *)
(***************************************************************************)
EXTENDS Integers, Sequences, FiniteSets, TLC

\* ------------------------------------------------------------------ bounds
MaxRows == 4
MaxVisitors == 1
MaxWatch == 1
MaxResidents == 2
MaxRequests == 1
MaxTime == 2

\* --------------------------------------------------------------- constants
WATCHLIST_THRESHOLD == 35
VISITOR_THRESHOLD == 30
RESIDENT_THRESHOLD == 30
HIGH_CONFIDENCE_THRESHOLD == 50
WatchlistTopK == 3
IdentityTopK == 5

NoFace == 0
NoId == 0

Faces == {"alice", "bob", "carol", "dave"}
Scales == {1, 2}
Images == [face : Faces, scale : Scales]

VisitorNames == {"alice"}
WatchNames == {"bob"}
ResidentNames == {"alice"}
Severities == {"medium", "high"}
Windows == {<<1, 1>>, <<2, 2>>}

PersonTypes == {"visitor", "resident", "watchlist"}

VisitorStatus ==
  {"pending", "approved", "checked_in", "checked_out", "expired", "rejected", "cancelled"}

EntryStatus == {"allowed", "denied", "manual_verification", "watchlist_alert"}

VARIABLES index, metadata, nextFace, visitors, watchlist, entry_logs, alerts,
          now, deleted, requests, last, index_file, meta_file, calls, account

vars == <<index, metadata, nextFace, visitors, watchlist, entry_logs, alerts,
          now, deleted, requests, last, index_file, meta_file, calls, account>>

\* ------------------------------------------------------------- embeddings
\* Cosine similarity of two face directions, in hundredths.
Pair(a, b, x, y) == (a = x /\ b = y) \/ (a = y /\ b = x)

SimTable ==
  [a \in Faces, b \in Faces |->
     IF a = b THEN 100
     ELSE IF Pair(a, b, "alice", "bob") THEN 35
     ELSE IF Pair(a, b, "alice", "carol") THEN 30
     ELSE IF Pair(a, b, "bob", "carol") THEN 20
     ELSE IF Pair(a, b, "alice", "dave") THEN 29
     ELSE IF Pair(a, b, "bob", "dave") THEN 34
     ELSE 0]

Sim(a, b) == SimTable[a, b]

\* FaceRecognitionService._crop_best_face: DeepFace.extract_faces with the
\* service's detector and align=True, then the best face cut out of the image
\* with 10% padding.
_crop_best_face(img) ==
  [image |-> img, detector_backend |-> "retinaface", align |-> TRUE,
   padding |-> 10]

\* DeepFace.represent on a prepared image file: the embedding points in the
\* direction of the face with the scale as its norm.  prep tells how the
\* pixels the model saw were prepared: one image prepared in two ways gives
\* two different vectors.
represent(src, model_name, detector_backend, align) ==
  [dir |-> src.image.face, norm |-> src.image.scale,
   prep |-> [crop |-> [detector_backend |-> src.detector_backend,
                       align |-> src.align, padding |-> src.padding],
             model_name |-> model_name, detector_backend |-> detector_backend,
             align |-> align]]

\* Mutant of IndexEmbedding: the whole image is handed to the model, which
\* detects and aligns the face itself.
IndexEmbedding_whole_image(img) ==
  represent([image |-> img, detector_backend |-> "none", align |-> FALSE,
             padding |-> 0],
            "Facenet512", "retinaface", TRUE)

\* The embedding index_face stores for an image: crop, then represent.
IndexEmbedding(img) == represent(_crop_best_face(img), "Facenet512", "skip", FALSE)

\* The embedding search_face queries with: crop, then represent.
SearchEmbedding(img) == represent(_crop_best_face(img), "Facenet512", "skip", FALSE)

\* The embedding of a captured frame as the searches of the gate compute it.
Represent(img) == SearchEmbedding(img)

\* FaissStore.normalize: vec / ||vec||.
normalize(vec) == [vec EXCEPT !.norm = vec.norm \div vec.norm]

\* IndexFlatIP inner product of two stored/query vectors.
InnerProduct(u, v) == Sim(u.dir, v.dir) * u.norm * v.norm

\* ------------------------------------------------------------- FaissStore
\* index.ntotal
ntotal == Len(index)

\* FaissStore._save of the in-memory structures idx and meta: faiss.write_index
\* to INDEX_PATH, then json.dump to META_PATH.  fault "save_fail": write_index
\* raises and neither file changes; "meta_fail": the index file is written
\* and the metadata write raises, leaving the old metadata file.
_save(idx, meta, fault) ==
  [ok |-> fault \notin {"save_fail", "meta_fail"},
   index_file |-> IF fault = "save_fail" THEN index_file ELSE idx,
   meta_file |-> IF fault \in {"save_fail", "meta_fail"} THEN meta_file ELSE meta]

\* FaissStore.add_face: normalise, append the vector at the next free row and
\* file the metadata under that row.  (_save follows; its failure raises
\* after both in-memory structures have been changed.)
add_face(face_id, embedding, meta) ==
  LET faiss_id == ntotal IN
  [index    |-> Append(index, normalize(embedding)),
   metadata |-> [k \in DOMAIN metadata \cup {faiss_id} |->
                   IF k = faiss_id THEN meta ELSE metadata[k]]]

\* The inner products of query vector q with rows first .. ntotal-1, in row
\* order (entry r + 1 is the score of row r).
RECURSIVE RowScores(_, _)
RowScores(q, first) ==
  IF first >= ntotal THEN << >>
  ELSE <<InnerProduct(q, index[first + 1])>> \o RowScores(q, first + 1)

\* IndexFlatIP result order: descending score; among equal scores the row
\* added first is kept first.
Before(scores, a, b) ==
  \/ scores[a + 1] > scores[b + 1]
  \/ scores[a + 1] = scores[b + 1] /\ a < b

RECURSIVE TopRows(_, _, _)
TopRows(scores, S, k) ==
  IF k = 0 \/ S = {} THEN << >>
  ELSE LET b == CHOOSE a \in S : \A c \in S \ {a} : Before(scores, a, c)
       IN <<b>> \o TopRows(scores, S \ {b}, k - 1)

\* One result of FaissStore.search: the score merged with
\* metadata.get(str(idx), {}); a missing key reads as the defaults the
\* callers use (r.get("active", True), r.get("person_type") is None).
Result(scores, r) ==
  IF r \in DOMAIN metadata
  THEN [score |-> scores[r + 1], row |-> r,
        face_id |-> metadata[r].face_id,
        person_name |-> metadata[r].person_name,
        person_type |-> metadata[r].person_type,
        active |-> metadata[r].active]
  ELSE [score |-> scores[r + 1], row |-> r, face_id |-> NoFace,
        person_name |-> "", person_type |-> "", active |-> TRUE]

RECURSIVE Results(_, _)
Results(scores, rows) ==
  IF rows = << >> THEN << >>
  ELSE <<Result(scores, Head(rows))>> \o Results(scores, Tail(rows))

\* FaissStore.search
search(embedding, top_k) ==
  IF ntotal = 0 THEN << >>
  ELSE LET scores == RowScores(normalize(embedding), 0)
       IN Results(scores, TopRows(scores, 0 .. (ntotal - 1), top_k))

\* FaissStore.stats
stats ==
  [total_vectors |-> ntotal,
   active_faces |-> Cardinality(DOMAIN metadata),
   by_type |-> [t \in {metadata[r].person_type : r \in DOMAIN metadata} |->
                  Cardinality({r \in DOMAIN metadata : metadata[r].person_type = t})]]

\* ----------------------------------------------------- FaceRecognitionService
\* FaceRecognitionService.get_stats
get_stats ==
  [total_faces |-> stats.active_faces,
   total_vectors |-> stats.total_vectors,
   by_type |-> stats.by_type]

_get_threshold_for_type(person_type) ==
  IF person_type = "watchlist" THEN WATCHLIST_THRESHOLD
  ELSE IF person_type = "resident" THEN RESIDENT_THRESHOLD
  ELSE VISITOR_THRESHOLD

NoMatch ==
  [score |-> 0, row |-> -1, face_id |-> NoFace, person_name |-> "",
   person_type |-> "", active |-> TRUE]

\* max(valid_matches, key=score): the first element with the greatest score.
MaxByScore(s) ==
  LET i == CHOOSE i \in 1 .. Len(s) :
             /\ \A j \in 1 .. Len(s) : s[j].score <= s[i].score
             /\ \A j \in 1 .. (i - 1) : s[j].score < s[i].score
  IN s[i]

MaxScore(s) == MaxByScore(s).score

\* Mutant of search_face: the threshold is an exclusive bound.
search_face_strict(img, person_types, top_k, threshold, extracted) ==
  IF ~extracted
  THEN [success |-> FALSE, match_found |-> FALSE, best_match |-> NoMatch,
        matches |-> << >>, threshold |-> 0, best_score |-> 0]
  ELSE
    LET raw == search(SearchEmbedding(img), top_k)
        OfType(r) == \E i \in 1 .. Len(person_types) : person_types[i] = r.person_type
        typed == SelectSeq(raw, OfType)
        IsActive(r) == r.active
        results == SelectSeq(typed, IsActive)
        thr == IF threshold = -1
               THEN _get_threshold_for_type(person_types[1])
               ELSE threshold
        Valid(r) == r.score > thr
        valid_matches == SelectSeq(results, Valid)
    IN IF results = << >>
       THEN [success |-> TRUE, match_found |-> FALSE, best_match |-> NoMatch,
             matches |-> << >>, threshold |-> 0, best_score |-> 0]
       ELSE IF valid_matches = << >>
       THEN [success |-> TRUE, match_found |-> FALSE, best_match |-> NoMatch,
             matches |-> results, threshold |-> thr,
             best_score |-> MaxScore(results)]
       ELSE [success |-> TRUE, match_found |-> TRUE,
             best_match |-> MaxByScore(valid_matches),
             matches |-> valid_matches, threshold |-> thr, best_score |-> 0]

\* Mutant of search_face: the filter on the active flag is left out.
search_face_unfiltered(img, person_types, top_k, threshold, extracted) ==
  IF ~extracted
  THEN [success |-> FALSE, match_found |-> FALSE, best_match |-> NoMatch,
        matches |-> << >>, threshold |-> 0, best_score |-> 0]
  ELSE
    LET raw == search(SearchEmbedding(img), top_k)
        OfType(r) == \E i \in 1 .. Len(person_types) : person_types[i] = r.person_type
        results == SelectSeq(raw, OfType)
        thr == IF threshold = -1
               THEN _get_threshold_for_type(person_types[1])
               ELSE threshold
        Valid(r) == r.score >= thr
        valid_matches == SelectSeq(results, Valid)
    IN IF results = << >>
       THEN [success |-> TRUE, match_found |-> FALSE, best_match |-> NoMatch,
             matches |-> << >>, threshold |-> 0, best_score |-> 0]
       ELSE IF valid_matches = << >>
       THEN [success |-> TRUE, match_found |-> FALSE, best_match |-> NoMatch,
             matches |-> results, threshold |-> thr,
             best_score |-> MaxScore(results)]
       ELSE [success |-> TRUE, match_found |-> TRUE,
             best_match |-> MaxByScore(valid_matches),
             matches |-> valid_matches, threshold |-> thr, best_score |-> 0]

\* FaceRecognitionService.search_face.  extracted = FALSE stands for any
\* failure before the index is queried (decode, crop, represent): the
\* except/early-return paths all answer success = False.  threshold = -1
\* stands for threshold=None.  best_score and threshold read 0 where the
\* returned dict has no such key (the callers read them with .get(.., 0)).
search_face(img, person_types, top_k, threshold, extracted) ==
  IF ~extracted
  THEN [success |-> FALSE, match_found |-> FALSE, best_match |-> NoMatch,
        matches |-> << >>, threshold |-> 0, best_score |-> 0]
  ELSE
    LET raw == search(SearchEmbedding(img), top_k)
        OfType(r) == \E i \in 1 .. Len(person_types) : person_types[i] = r.person_type
        typed == SelectSeq(raw, OfType)
        IsActive(r) == r.active
        results == SelectSeq(typed, IsActive)
        thr == IF threshold = -1
               THEN _get_threshold_for_type(person_types[1])
               ELSE threshold
        Valid(r) == r.score >= thr
        valid_matches == SelectSeq(results, Valid)
    IN IF results = << >>
       THEN [success |-> TRUE, match_found |-> FALSE, best_match |-> NoMatch,
             matches |-> << >>, threshold |-> 0, best_score |-> 0]
       ELSE IF valid_matches = << >>
       THEN [success |-> TRUE, match_found |-> FALSE, best_match |-> NoMatch,
             matches |-> results, threshold |-> thr,
             best_score |-> MaxScore(results)]
       ELSE [success |-> TRUE, match_found |-> TRUE,
             best_match |-> MaxByScore(valid_matches),
             matches |-> valid_matches, threshold |-> thr, best_score |-> 0]

\* FaceRecognitionService.search_watchlist
search_watchlist(img, extracted) ==
  LET result == search_face(img, <<"watchlist">>, WatchlistTopK,
                            WATCHLIST_THRESHOLD, extracted)
  IN IF ~result.success
     THEN [watchlist_match |-> FALSE, best_match |-> NoMatch]
     ELSE IF ~result.match_found
     THEN [watchlist_match |-> FALSE, best_match |-> NoMatch]
     ELSE [watchlist_match |-> TRUE, best_match |-> result.best_match]

\* What index_face leaves when it never reaches add_face.  stored tells
\* whether the call wrote the original image under images_path.
NotIndexed(stored) ==
  [success |-> FALSE, face_id |-> NoFace, stored |-> stored, index |-> index,
   metadata |-> metadata, nextFace |-> nextFace, index_file |-> index_file,
   meta_file |-> meta_file]

\* Mutant of index_face: the person_type is not checked.
index_face_any_type(img, person_type, person_name, fault) ==
  IF fault = "no_face" THEN NotIndexed(TRUE)
  ELSE LET face_id == nextFace
           added == add_face(face_id, IndexEmbedding(img),
                             [face_id |-> face_id, person_name |-> person_name,
                              person_type |-> person_type, active |-> TRUE])
           saved == _save(added.index, added.metadata, fault)
       IN [success |-> saved.ok,
           face_id |-> IF saved.ok THEN face_id ELSE NoFace,
           stored |-> TRUE,
           index |-> added.index, metadata |-> added.metadata,
           nextFace |-> nextFace + 1,
           index_file |-> saved.index_file, meta_file |-> saved.meta_file]

\* FaceRecognitionService.index_face.  fault: "none", "no_face" (detection,
\* crop or represent gave nothing, after the original image was stored:
\* return or raise before add_face), "save_fail" or "meta_fail"
\* (FaissStore._save raises inside add_face, caught by the except clause).
\* An invalid person_type raises before anything is written.  The face_id is
\* a fresh uuid.
index_face(img, person_type, person_name, fault) ==
  IF person_type \notin PersonTypes THEN NotIndexed(FALSE)
  ELSE IF fault = "no_face" THEN NotIndexed(TRUE)
  ELSE LET face_id == nextFace
           added == add_face(face_id, IndexEmbedding(img),
                             [face_id |-> face_id, person_name |-> person_name,
                              person_type |-> person_type, active |-> TRUE])
           saved == _save(added.index, added.metadata, fault)
       IN [success |-> saved.ok,
           face_id |-> IF saved.ok THEN face_id ELSE NoFace,
           stored |-> TRUE,
           index |-> added.index, metadata |-> added.metadata,
           nextFace |-> nextFace + 1,
           index_file |-> saved.index_file, meta_file |-> saved.meta_file]

\* Rows of the metadata map that carry face_id, in iteration (insertion) order.
RowsOf(face_id) == {r \in DOMAIN metadata : metadata[r].face_id = face_id}

\* Mutant of delete_face: the record is found and the call answers True, but
\* the active flag is not cleared.
delete_face_flag_kept(face_id, save_ok) ==
  [found |-> RowsOf(face_id) # {},
   returned |-> RowsOf(face_id) # {} /\ save_ok,
   metadata |-> metadata,
   index_file |-> IF RowsOf(face_id) # {} /\ save_ok THEN index ELSE index_file,
   meta_file |-> IF RowsOf(face_id) # {} /\ save_ok THEN metadata ELSE meta_file]

\* What delete_face leaves when no metadata entry carries the face_id.
NotDeleted ==
  [found |-> FALSE, returned |-> FALSE, metadata |-> metadata,
   index_file |-> index_file, meta_file |-> meta_file]

\* FaceRecognitionService.delete_face: the first metadata entry with the
\* face_id gets active = False, then _save; a failing _save is caught and the
\* call answers False with the flag already cleared in memory.
delete_face(face_id, save_ok) ==
  IF RowsOf(face_id) = {} THEN NotDeleted
  ELSE LET r == CHOOSE r \in RowsOf(face_id) : \A o \in RowsOf(face_id) : r <= o
           cleared == [metadata EXCEPT ![r].active = FALSE]
           saved == _save(index, cleared, IF save_ok THEN "none" ELSE "save_fail")
       IN [found |-> TRUE, returned |-> saved.ok, metadata |-> cleared,
           index_file |-> saved.index_file, meta_file |-> saved.meta_file]

\* ------------------------------------------------------------ VisitorService
\* db.query(Visitor).filter(Visitor.face_id == face_id).first()
VisitorByFace(face_id) ==
  LET hits == {i \in 1 .. Len(visitors) : visitors[i].face_id = face_id}
  IN IF hits = {} THEN NoId ELSE CHOOSE i \in hits : \A j \in hits : i <= j

\* db.query(Visitor).filter(Visitor.full_name == person_name,
\*                          Visitor.face_id.isnot(None)).first()
VisitorByName(person_name) ==
  LET hits == {i \in 1 .. Len(visitors) :
                 visitors[i].full_name = person_name /\ visitors[i].face_id # NoFace}
  IN IF hits = {} THEN NoId ELSE CHOOSE i \in hits : \A j \in hits : i <= j

\* Mutant of create_visitor: a failed index_face aborts the call before the
\* visitor is added.
create_visitor_needs_face(name, with_face, scale, win, fault) ==
  LET face_result == IF with_face
                     THEN index_face([face |-> name, scale |-> scale],
                                     "visitor", name, fault)
                     ELSE NotIndexed(FALSE)
      face_id == IF face_result.success THEN face_result.face_id ELSE NoFace
      visitor == [full_name |-> name, face_id |-> face_id,
                  status |-> "approved",
                  valid_from |-> win[1], valid_until |-> win[2]]
      aborted == fault = "db_fail" \/ (with_face /\ ~face_result.success)
  IN [success |-> ~aborted,
      face_indexed |-> ~aborted /\ face_id # NoFace,
      face_result |-> face_result,
      visitors |-> IF aborted THEN visitors ELSE Append(visitors, visitor)]

\* VisitorService.create_visitor: the result of index_face (NotIndexed when
\* no image was sent), the visitor table after the call and the details
\* returned.  fault "db_fail": db.commit() raises and the except clause rolls
\* the visitor back (the index keeps what index_face did).
create_visitor(name, with_face, scale, win, fault) ==
  LET face_result == IF with_face
                     THEN index_face([face |-> name, scale |-> scale],
                                     "visitor", name, fault)
                     ELSE NotIndexed(FALSE)
      face_id == IF face_result.success THEN face_result.face_id ELSE NoFace
      visitor == [full_name |-> name, face_id |-> face_id,
                  status |-> "approved",
                  valid_from |-> win[1], valid_until |-> win[2]]
  IN [success |-> fault # "db_fail",
      face_indexed |-> fault # "db_fail" /\ face_id # NoFace,
      face_result |-> face_result,
      visitors |-> IF fault = "db_fail" THEN visitors
                   ELSE Append(visitors, visitor)]

\* Mutant of validate_visitor_entry: the CHECKED_OUT test is left out.
validate_visitor_entry_no_checkout(visitor_id) ==
  IF visitor_id \notin 1 .. Len(visitors)
  THEN [is_valid |-> FALSE, message |-> "not_found", visitors |-> visitors]
  ELSE LET visitor == visitors[visitor_id] IN
    IF visitor.status = "cancelled"
    THEN [is_valid |-> FALSE, message |-> "cancelled", visitors |-> visitors]
    ELSE IF visitor.status = "expired"
    THEN [is_valid |-> FALSE, message |-> "expired", visitors |-> visitors]
    ELSE IF visitor.status = "rejected"
    THEN [is_valid |-> FALSE, message |-> "rejected", visitors |-> visitors]
    ELSE IF now < visitor.valid_from
    THEN [is_valid |-> FALSE, message |-> "not_yet_valid", visitors |-> visitors]
    ELSE IF now > visitor.valid_until
    THEN [is_valid |-> FALSE, message |-> "expired",
          visitors |-> [visitors EXCEPT ![visitor_id].status = "expired"]]
    ELSE [is_valid |-> TRUE, message |-> "valid", visitors |-> visitors]

\* VisitorService.validate_visitor_entry: (is_valid, message) and the visitor
\* table after the call (the expiry branch commits status = EXPIRED).
validate_visitor_entry(visitor_id) ==
  IF visitor_id \notin 1 .. Len(visitors)
  THEN [is_valid |-> FALSE, message |-> "not_found", visitors |-> visitors]
  ELSE LET visitor == visitors[visitor_id] IN
    IF visitor.status = "cancelled"
    THEN [is_valid |-> FALSE, message |-> "cancelled", visitors |-> visitors]
    ELSE IF visitor.status = "expired"
    THEN [is_valid |-> FALSE, message |-> "expired", visitors |-> visitors]
    ELSE IF visitor.status = "rejected"
    THEN [is_valid |-> FALSE, message |-> "rejected", visitors |-> visitors]
    ELSE IF visitor.status = "checked_out"
    THEN [is_valid |-> FALSE, message |-> "checked_out", visitors |-> visitors]
    ELSE IF now < visitor.valid_from
    THEN [is_valid |-> FALSE, message |-> "not_yet_valid", visitors |-> visitors]
    ELSE IF now > visitor.valid_until
    THEN [is_valid |-> FALSE, message |-> "expired",
          visitors |-> [visitors EXCEPT ![visitor_id].status = "expired"]]
    ELSE [is_valid |-> TRUE, message |-> "valid", visitors |-> visitors]

\* Mutant of check_in_visitor: the status is not written.
check_in_visitor_unchanged(vs, visitor_id) == vs

\* VisitorService.check_in_visitor, as a change of the visitor table.
check_in_visitor(vs, visitor_id) ==
  IF visitor_id \notin 1 .. Len(vs) THEN vs
  ELSE [vs EXCEPT ![visitor_id].status = "checked_in"]

\* ---------------------------------------------------------- WatchlistService
\* db.query(WatchlistPerson).filter(face_id == .., is_active == True).first()
WatchlistByFace(face_id) ==
  LET hits == {i \in 1 .. Len(watchlist) :
                 watchlist[i].face_id = face_id /\ watchlist[i].is_active}
  IN IF hits = {} THEN NoId ELSE CHOOSE i \in hits : \A j \in hits : i <= j

\* WatchlistService.add_person: the result of index_face (NotIndexed when no
\* image was sent), the watchlist table after the call and the details
\* returned.
add_person(name, with_face, scale, severity, fault) ==
  LET face_result == IF with_face
                     THEN index_face([face |-> name, scale |-> scale],
                                     "watchlist", name, fault)
                     ELSE NotIndexed(FALSE)
      face_id == IF face_result.success THEN face_result.face_id ELSE NoFace
      person == [full_name |-> name, face_id |-> face_id,
                 severity |-> severity, is_active |-> TRUE]
  IN [success |-> TRUE,
      face_indexed |-> face_id # NoFace,
      face_result |-> face_result,
      watchlist |-> Append(watchlist, person)]

\* Mutant of create_alert: the severity is always HIGH.
create_alert_high(watchlist_person_id, confidence_score) ==
  [watchlist_person_id |-> watchlist_person_id,
   entry_log_id |-> NoId,
   confidence_score |-> confidence_score,
   severity |-> "high"]

\* WatchlistService.create_alert: the new WatchlistAlert row.
create_alert(watchlist_person_id, confidence_score) ==
  [watchlist_person_id |-> watchlist_person_id,
   entry_log_id |-> NoId,
   confidence_score |-> confidence_score,
   severity |-> IF watchlist_person_id \in 1 .. Len(watchlist)
                THEN watchlist[watchlist_person_id].severity
                ELSE "high"]

\* ------------------------------------------------------------- /gate/verify
\* Mutant of EntryLog: the denial reason is written without the best score
\* and the threshold.
EntryLog_no_score(status, method, visitor_id, person_name, confidence, watch_id, denial_reason, notes, best_score, threshold) ==
  [status |-> status, verification_method |-> method, visitor_id |-> visitor_id,
   person_name |-> person_name, face_match_confidence |-> confidence,
   watchlist_match_id |-> watch_id, denial_reason |-> denial_reason,
   notes |-> notes, best_score |-> 0, threshold |-> 0]

\* An EntryLog row as verify_entry builds it.
EntryLog(status, method, visitor_id, person_name, confidence, watch_id, denial_reason, notes, best_score, threshold) ==
  [status |-> status, verification_method |-> method, visitor_id |-> visitor_id,
   person_name |-> person_name, face_match_confidence |-> confidence,
   watchlist_match_id |-> watch_id, denial_reason |-> denial_reason,
   notes |-> notes, best_score |-> best_score, threshold |-> threshold]

\* Mutant of Outcome: the response is returned with the entry log left
\* uncommitted.
OutcomeUnlogged(status, log_id, visitor_id, confidence, denial_reason, alert_id, match_face, attempts, vs, logs, als) ==
  [status |-> status, entry_log_id |-> log_id, visitor_id |-> visitor_id,
   confidence |-> confidence, denial_reason |-> denial_reason,
   alert_id |-> alert_id, match_face |-> match_face, attempts |-> attempts,
   visitors |-> vs, entry_logs |-> entry_logs, alerts |-> als]

\* What one verify_entry call leaves behind: the response (status "error"
\* when an exception leaves the handler) and the committed tables.
Outcome(status, log_id, visitor_id, confidence, denial_reason, alert_id, match_face, attempts, vs, logs, als) ==
  [status |-> status, entry_log_id |-> log_id, visitor_id |-> visitor_id,
   confidence |-> confidence, denial_reason |-> denial_reason,
   alert_id |-> alert_id, match_face |-> match_face, attempts |-> attempts,
   visitors |-> vs, entry_logs |-> logs, alerts |-> als]

Raised(attempts, vs, logs, als) ==
  Outcome("error", NoId, NoId, 0, "", NoId, NoFace, attempts, vs, logs, als)

\* Step 1 of verify_entry, taken when the watchlist search matched and the
\* WatchlistPerson was found: alert, entry log, link, response.
WatchlistStep(match, person_id, attempts, dbfault) ==
  LET confidence == match.score
      alert == create_alert(person_id, confidence)
      alerts1 == Append(alerts, alert)
      alert_id == Len(alerts1)
      logs1 == Append(entry_logs,
                 EntryLog("watchlist_alert", "face_recognition", NoId,
                          watchlist[person_id].full_name, confidence, person_id,
                          "", "watchlist_match", 0, 0))
      log_id == Len(logs1)
      alerts2 == [alerts1 EXCEPT ![alert_id].entry_log_id = log_id]
  IN IF dbfault = "alert" THEN Raised(attempts, visitors, entry_logs, alerts)
     ELSE IF dbfault = "log" THEN Raised(attempts, visitors, entry_logs, alerts1)
     ELSE IF dbfault = "link" THEN Raised(attempts, visitors, logs1, alerts1)
     ELSE Outcome("watchlist_alert", log_id, NoId, confidence, "", alert_id,
                  match.face_id, attempts, visitors, logs1, alerts2)

\* The visitor branch of step 2: lookup by face_id, the lookup by name when
\* that finds nothing, validation, then the entry log.
VisitorStep(match, attempts, dbfault) ==
  LET confidence == match.score
      by_face == VisitorByFace(match.face_id)
      visitor == IF by_face = NoId /\ match.person_name # ""
                 THEN VisitorByName(match.person_name)
                 ELSE by_face
      checked == validate_visitor_entry(visitor)
      log_id == Len(entry_logs) + 1
  IN IF dbfault = "lookup" THEN Raised(attempts, visitors, entry_logs, alerts)
     ELSE IF visitor = NoId
     THEN IF dbfault = "log" THEN Raised(attempts, visitors, entry_logs, alerts)
          ELSE Outcome("manual_verification", log_id, NoId, confidence, "", NoId,
                 match.face_id, attempts, visitors,
                 Append(entry_logs,
                   EntryLog("manual_verification", "face_recognition", NoId,
                            match.person_name, confidence, NoId, "",
                            "record_not_found", 0, 0)),
                 alerts)
     ELSE IF checked.is_valid
     THEN IF dbfault = "log" THEN Raised(attempts, visitors, entry_logs, alerts)
          ELSE Outcome("allowed", log_id, visitor, confidence, "", NoId,
                 match.face_id, attempts,
                 check_in_visitor(checked.visitors, visitor),
                 Append(entry_logs,
                   EntryLog("allowed", "face_recognition", visitor,
                            visitors[visitor].full_name, confidence, NoId, "",
                            "", 0, 0)),
                 alerts)
     ELSE IF dbfault = "log"
          THEN Raised(attempts, checked.visitors, entry_logs, alerts)
          ELSE Outcome("denied", log_id, visitor, confidence, checked.message,
                 NoId, match.face_id, attempts, checked.visitors,
                 Append(entry_logs,
                   EntryLog("denied", "face_recognition", visitor,
                            visitors[visitor].full_name, confidence, NoId,
                            checked.message, "", 0, 0)),
                 alerts)

\* Step 2 of verify_entry: the visitor/resident search and what follows it.
IdentityStep(img, attempts1, ext2, dbfault) ==
  LET search_result == search_face(img, <<"visitor", "resident">>, IdentityTopK,
                                   -1, ext2)
      attempts == Append(attempts1, ext2)
      match == search_result.best_match
      log_id == Len(entry_logs) + 1
  IN IF ~search_result.success
     THEN IF dbfault = "log" THEN Raised(attempts, visitors, entry_logs, alerts)
          ELSE Outcome("manual_verification", log_id, NoId, 0, "", NoId, NoFace,
                 attempts, visitors,
                 Append(entry_logs,
                   EntryLog("manual_verification", "manual", NoId, "", 0, NoId,
                            "face_not_detected", "face_detection_failed", 0, 0)),
                 alerts)
     ELSE IF search_result.match_found /\ match # NoMatch
             /\ match.person_type = "visitor"
     THEN VisitorStep(match, attempts, dbfault)
     ELSE IF search_result.match_found /\ match # NoMatch
             /\ match.person_type = "resident"
     THEN IF dbfault = "log" THEN Raised(attempts, visitors, entry_logs, alerts)
          ELSE Outcome("allowed", log_id, NoId, match.score, "", NoId,
                 match.face_id, attempts, visitors,
                 Append(entry_logs,
                   EntryLog("allowed", "face_recognition", NoId,
                            match.person_name, match.score, NoId, "", "", 0, 0)),
                 alerts)
     ELSE IF dbfault = "log" THEN Raised(attempts, visitors, entry_logs, alerts)
          ELSE Outcome("manual_verification", log_id, NoId, 0, "", NoId, NoFace,
                 attempts, visitors,
                 Append(entry_logs,
                   EntryLog("manual_verification", "manual", NoId, "", 0, NoId,
                            "no_matching_face", "not_recognized",
                            search_result.best_score, search_result.threshold)),
                 alerts)

\* verify_entry.  ext1 and ext2 say whether the embedding extraction inside
\* the first (watchlist) and the second (visitor/resident) search_face call
\* succeeds; dbfault names the database step that raises, if it is reached:
\* "lookup" (a query), "alert" (create_alert's commit), "log" (the commit of
\* the entry log), "link" (the commit of alert.entry_log_id), or "none".
verify_entry(img, ext1, ext2, dbfault) ==
  LET watchlist_result == search_watchlist(img, ext1)
      match == watchlist_result.best_match
      person == WatchlistByFace(match.face_id)
  IN IF watchlist_result.watchlist_match /\ match # NoMatch
     THEN IF dbfault = "lookup"
          THEN Raised(<<ext1>>, visitors, entry_logs, alerts)
          ELSE IF person # NoId
          THEN WatchlistStep(match, person, <<ext1>>, dbfault)
          ELSE IdentityStep(img, <<ext1>>, ext2, dbfault)
     ELSE IdentityStep(img, <<ext1>>, ext2, dbfault)

\* ------------------------------------------------------------------- state
\* The response of the latest /gate/verify call together with the tables it
\* started from; Idle after any other operation.
Idle ==
  [op |-> "none", face |-> "", scale |-> 0, status |-> "", entry_log_id |-> NoId,
   visitor_id |-> NoId, denial_reason |-> "", alert_id |-> NoId,
   match_face |-> NoFace, attempts |-> << >>, pre_visitors |-> << >>,
   pre_logs |-> 0, pre_alerts |-> 0]

Init ==
  /\ index = << >>
  /\ metadata = << >>
  /\ nextFace = 1
  /\ visitors = << >>
  /\ watchlist = << >>
  /\ entry_logs = << >>
  /\ alerts = << >>
  /\ now = 1
  /\ deleted = {}
  /\ requests = 0
  /\ last = Idle
  /\ index_file = << >>
  /\ meta_file = << >>
  /\ calls = << >>
  /\ account = [failed_login_attempts |-> 0, locked_until |-> 0, last_login |-> 0,
                is_active |-> TRUE]

\* ----------------------------------------------------------------- actions
\* A behaviour is followed until MaxRequests calls of /gate/verify were made.
RunOpen == requests < MaxRequests

\* VisitorService.create_visitor
CreateVisitor(name, with_face, scale, win, fault) ==
  /\ RunOpen
  /\ Len(visitors) < MaxVisitors
  /\ Len(index) < MaxRows
  /\ \E out \in {create_visitor(name, with_face, scale, win, fault)} :
        /\ index' = out.face_result.index
        /\ metadata' = out.face_result.metadata
        /\ nextFace' = out.face_result.nextFace
        /\ index_file' = out.face_result.index_file
        /\ meta_file' = out.face_result.meta_file
        /\ visitors' = out.visitors
  /\ last' = Idle
  /\ UNCHANGED requests
  /\ UNCHANGED <<calls, account>>
  /\ UNCHANGED <<watchlist, entry_logs, alerts, now, deleted>>

\* WatchlistService.add_person
AddPerson(name, with_face, scale, severity, fault) ==
  /\ RunOpen
  /\ Len(watchlist) < MaxWatch
  /\ Len(index) < MaxRows
  /\ \E out \in {add_person(name, with_face, scale, severity, fault)} :
        /\ index' = out.face_result.index
        /\ metadata' = out.face_result.metadata
        /\ nextFace' = out.face_result.nextFace
        /\ index_file' = out.face_result.index_file
        /\ meta_file' = out.face_result.meta_file
        /\ watchlist' = out.watchlist
  /\ last' = Idle
  /\ UNCHANGED requests
  /\ UNCHANGED <<calls, account>>
  /\ UNCHANGED <<visitors, entry_logs, alerts, now, deleted>>

\* index_face called for a resident (the service accepts the type; no
\* relational record goes with it).
IndexResident(name, scale, fault) ==
  /\ RunOpen
  /\ Len(index) < MaxRows
  /\ Cardinality({r \in DOMAIN metadata : metadata[r].person_type = "resident"})
       < MaxResidents
  /\ \E face_result \in {index_face([face |-> name, scale |-> scale],
                                     "resident", name, fault)} :
        /\ index' = face_result.index
        /\ metadata' = face_result.metadata
        /\ nextFace' = face_result.nextFace
        /\ index_file' = face_result.index_file
        /\ meta_file' = face_result.meta_file
  /\ last' = Idle
  /\ UNCHANGED requests
  /\ UNCHANGED <<calls, account>>
  /\ UNCHANGED <<visitors, watchlist, entry_logs, alerts, now, deleted>>

\* VisitorService.cancel_visitor
CancelVisitor(id) ==
  /\ RunOpen
  /\ id \in 1 .. Len(visitors)
  /\ LET face_id == visitors[id].face_id
         del == IF face_id # NoFace
                THEN delete_face(face_id, TRUE)
                ELSE NotDeleted
     IN /\ metadata' = del.metadata
        /\ index_file' = del.index_file
        /\ meta_file' = del.meta_file
        /\ deleted' = IF del.returned THEN deleted \cup {face_id} ELSE deleted
        /\ visitors' = [visitors EXCEPT ![id].status = "cancelled"]
  /\ last' = Idle
  /\ UNCHANGED requests
  /\ UNCHANGED <<calls, account>>
  /\ UNCHANGED <<index, nextFace, watchlist, entry_logs, alerts, now>>

\* WatchlistService.remove_person
RemovePerson(id) ==
  /\ RunOpen
  /\ id \in 1 .. Len(watchlist)
  /\ LET face_id == watchlist[id].face_id
         del == IF face_id # NoFace
                THEN delete_face(face_id, TRUE)
                ELSE NotDeleted
     IN /\ metadata' = del.metadata
        /\ index_file' = del.index_file
        /\ meta_file' = del.meta_file
        /\ deleted' = IF del.returned THEN deleted \cup {face_id} ELSE deleted
        /\ watchlist' = [watchlist EXCEPT ![id].is_active = FALSE]
  /\ last' = Idle
  /\ UNCHANGED requests
  /\ UNCHANGED <<calls, account>>
  /\ UNCHANGED <<index, nextFace, visitors, entry_logs, alerts, now>>

\* VisitorService.update_visitor with update_data = {status}
UpdateVisitor(id, status) ==
  /\ RunOpen
  /\ id \in 1 .. Len(visitors)
  /\ visitors' = [visitors EXCEPT ![id].status = status]
  /\ last' = Idle
  /\ UNCHANGED requests
  /\ UNCHANGED <<calls, account>>
  /\ UNCHANGED <<index, metadata, nextFace, watchlist, entry_logs, alerts, now,
                 deleted, index_file, meta_file>>

\* WatchlistService.update_person with update_data = {is_active}
UpdatePerson(id, is_active) ==
  /\ RunOpen
  /\ id \in 1 .. Len(watchlist)
  /\ watchlist' = [watchlist EXCEPT ![id].is_active = is_active]
  /\ last' = Idle
  /\ UNCHANGED requests
  /\ UNCHANGED <<calls, account>>
  /\ UNCHANGED <<index, metadata, nextFace, visitors, entry_logs, alerts, now,
                 deleted, index_file, meta_file>>

\* POST /visitors/{id}/check-in
CheckInVisitor(id) ==
  /\ RunOpen
  /\ id \in 1 .. Len(visitors)
  /\ visitors' = check_in_visitor(visitors, id)
  /\ last' = Idle
  /\ UNCHANGED requests
  /\ UNCHANGED <<calls, account>>
  /\ UNCHANGED <<index, metadata, nextFace, watchlist, entry_logs, alerts, now,
                 deleted, index_file, meta_file>>

\* VisitorService.check_out_visitor
CheckOutVisitor(id) ==
  /\ RunOpen
  /\ id \in 1 .. Len(visitors)
  /\ visitors' = [visitors EXCEPT ![id].status = "checked_out"]
  /\ last' = Idle
  /\ UNCHANGED requests
  /\ UNCHANGED <<calls, account>>
  /\ UNCHANGED <<index, metadata, nextFace, watchlist, entry_logs, alerts, now,
                 deleted, index_file, meta_file>>

\* VisitorService.expire_old_approvals
ExpireOldApprovals ==
  /\ RunOpen
  /\ visitors' = [i \in 1 .. Len(visitors) |->
                    IF visitors[i].status = "approved" /\ visitors[i].valid_until < now
                    THEN [visitors[i] EXCEPT !.status = "expired"]
                    ELSE visitors[i]]
  /\ last' = Idle
  /\ UNCHANGED requests
  /\ UNCHANGED <<calls, account>>
  /\ UNCHANGED <<index, metadata, nextFace, watchlist, entry_logs, alerts, now,
                 deleted, index_file, meta_file>>

\* datetime.now() moves on.
Tick ==
  /\ RunOpen
  /\ now < MaxTime
  /\ now' = now + 1
  /\ last' = Idle
  /\ UNCHANGED requests
  /\ UNCHANGED <<calls, account>>
  /\ UNCHANGED <<index, metadata, nextFace, visitors, watchlist, entry_logs,
                 alerts, deleted, index_file, meta_file>>

\* POST /gate/verify
VerifyEntry(img, ext1, ext2, dbfault) ==
  /\ RunOpen
  /\ \E out \in {verify_entry(img, ext1, ext2, dbfault)} :
        /\ visitors' = out.visitors
        /\ entry_logs' = out.entry_logs
        /\ alerts' = out.alerts
        /\ last' = [op |-> "verify", face |-> img.face, scale |-> img.scale,
                    status |-> out.status,
                    entry_log_id |-> out.entry_log_id,
                    visitor_id |-> out.visitor_id,
                    denial_reason |-> out.denial_reason,
                    alert_id |-> out.alert_id, match_face |-> out.match_face,
                    attempts |-> out.attempts, pre_visitors |-> visitors,
                    pre_logs |-> Len(entry_logs), pre_alerts |-> Len(alerts)]
  /\ requests' = requests + 1
  /\ UNCHANGED <<calls, account>>
  /\ UNCHANGED <<index, metadata, nextFace, watchlist, now, deleted, index_file,
                 meta_file>>

IndexFaults == {"none", "no_face"}
VisitorFaults == {"none", "no_face", "db_fail"}
PersonFaults == {"none", "no_face"}
DbFaults == {"none", "lookup", "alert", "log", "link"}

\* A request meets at most one kind of trouble: extraction failures of either
\* search_face call, or one failing database step.
VerifyFaults ==
  {f \in [ext1 : BOOLEAN, ext2 : BOOLEAN, dbfault : DbFaults] :
     f.dbfault = "none" \/ (f.ext1 /\ f.ext2)}

\* Captured frames: every face, at a scale other than the enrolment default.
Captures == {img \in Images : img.scale = 2}

Next ==
  \/ \E name \in VisitorNames, with_face \in BOOLEAN, scale \in Scales,
        win \in Windows, fault \in VisitorFaults :
       CreateVisitor(name, with_face, scale, win, fault)
  \/ \E name \in WatchNames, with_face \in BOOLEAN, scale \in Scales,
        severity \in Severities, fault \in PersonFaults :
       AddPerson(name, with_face, scale, severity, fault)
  \/ \E name \in ResidentNames, scale \in Scales, fault \in IndexFaults :
       IndexResident(name, scale, fault)
  \/ \E id \in 1 .. MaxVisitors : CancelVisitor(id)
  \/ \E id \in 1 .. MaxWatch : RemovePerson(id)
  \/ \E id \in 1 .. MaxVisitors, status \in VisitorStatus : UpdateVisitor(id, status)
  \/ \E id \in 1 .. MaxWatch, is_active \in BOOLEAN : UpdatePerson(id, is_active)
  \/ \E id \in 1 .. MaxVisitors : CheckInVisitor(id)
  \/ \E id \in 1 .. MaxVisitors : CheckOutVisitor(id)
  \/ ExpireOldApprovals
  \/ Tick
  \/ \E img \in Captures, f \in VerifyFaults :
       VerifyEntry(img, f.ext1, f.ext2, f.dbfault)

Spec == Init /\ [][Next]_vars

\* ----------------------------------------------------- the face store alone
\* The face service driven call by call: index_face, delete_face, search_face
\* and get_stats on one FaissStore, and a restart of the process, which builds
\* a new FaissStore from the two files.  last records the latest call: its
\* arguments and what it returned.
\* The enrolments tried: alice as a visitor (at either scale), bob as a
\* watchlist person, and alice under a person_type the service does not know.
Enrolments ==
  {[img |-> [face |-> "alice", scale |-> 1], person_type |-> "visitor"],
   [img |-> [face |-> "alice", scale |-> 2], person_type |-> "visitor"],
   [img |-> [face |-> "bob", scale |-> 1], person_type |-> "watchlist"],
   [img |-> [face |-> "alice", scale |-> 1], person_type |-> "staff"]}
StoreFaults == {"none", "no_face", "save_fail", "meta_fail"}

\* The two searches the service offers: search_watchlist and search_visitor.
SearchKinds ==
  {[person_types |-> <<"watchlist">>, top_k |-> WatchlistTopK],
   [person_types |-> <<"visitor", "resident">>, top_k |-> IdentityTopK]}

\* The two files hold what is in memory.
Persisted == index_file = index /\ meta_file = metadata

\* At most MaxRows face ids are ever handed out, and a write to the files
\* fails only when the write before it went through.
IndexFace(img, person_type, fault) ==
  /\ Len(index) < MaxRows
  /\ nextFace <= MaxRows
  /\ fault \in {"save_fail", "meta_fail"} => Persisted
  /\ \E out \in {index_face(img, person_type, img.face, fault)} :
        /\ index' = out.index
        /\ metadata' = out.metadata
        /\ nextFace' = out.nextFace
        /\ index_file' = out.index_file
        /\ meta_file' = out.meta_file
        /\ last' = [op |-> "index_face", img |-> img, person_type |-> person_type,
                    fault |-> fault, success |-> out.success,
                    face_id |-> out.face_id, stored |-> out.stored]
  /\ UNCHANGED <<calls, account>>
  /\ UNCHANGED <<visitors, watchlist, entry_logs, alerts, now, deleted, requests>>

DeleteFace(face_id, save_ok) ==
  /\ ~save_ok => Persisted
  /\ \E out \in {delete_face(face_id, save_ok)} :
        /\ metadata' = out.metadata
        /\ index_file' = out.index_file
        /\ meta_file' = out.meta_file
        /\ last' = [op |-> "delete_face", face_id |-> face_id, save_ok |-> save_ok,
                    found |-> out.found, returned |-> out.returned]
  /\ UNCHANGED <<calls, account>>
  /\ UNCHANGED <<index, nextFace, visitors, watchlist, entry_logs, alerts, now,
                 deleted, requests>>

SearchFace(img, kind, extracted) ==
  /\ last' = [op |-> "search_face", img |-> img,
              person_types |-> kind.person_types, top_k |-> kind.top_k,
              result |-> search_face(img, kind.person_types, kind.top_k, -1,
                                     extracted)]
  /\ UNCHANGED <<calls, account>>
  /\ UNCHANGED <<index, metadata, nextFace, visitors, watchlist, entry_logs,
                 alerts, now, deleted, requests, index_file, meta_file>>

GetStats ==
  /\ last' = [op |-> "get_stats", result |-> get_stats]
  /\ UNCHANGED <<calls, account>>
  /\ UNCHANGED <<index, metadata, nextFace, visitors, watchlist, entry_logs,
                 alerts, now, deleted, requests, index_file, meta_file>>

\* FaissStore.__init__ in a new process: the index is read from INDEX_PATH and
\* the metadata from META_PATH, each on its own.
Restart ==
  /\ index' = index_file
  /\ metadata' = meta_file
  /\ last' = [op |-> "restart"]
  /\ UNCHANGED <<calls, account>>
  /\ UNCHANGED <<nextFace, visitors, watchlist, entry_logs, alerts, now, deleted,
                 requests, index_file, meta_file>>

StoreNext ==
  \/ \E e \in Enrolments, fault \in StoreFaults :
       IndexFace(e.img, e.person_type, fault)
  \/ \E face_id \in 1 .. MaxRows, save_ok \in BOOLEAN : DeleteFace(face_id, save_ok)
  \/ \E img \in Captures, kind \in SearchKinds, extracted \in BOOLEAN :
       SearchFace(img, kind, extracted)
  \/ GetStats
  \/ Restart

StoreSpec == Init /\ [][StoreNext]_vars

\* ------------------------------------------------------------------ claims
\* The frame of the latest /gate/verify call and the score FaissStore.search
\* gives row r for it.
LastCapture == [face |-> last.face, scale |-> last.scale]

CaptureScore(r) == InnerProduct(normalize(Represent(LastCapture)), index[r + 1])

\* The latest call was /gate/verify and it returned a response.
Returned == last.op = "verify" /\ last.status # "error"

\* Every embedding extraction the latest request attempted succeeded.
ExtractionOk == \A i \in 1 .. Len(last.attempts) : last.attempts[i]

\* Row r is an active watchlist record whose WatchlistPerson is active and
\* which scores at or above the watchlist threshold for the latest capture.
WatchlistHit(r) ==
  /\ metadata[r].person_type = "watchlist"
  /\ metadata[r].active
  /\ WatchlistByFace(metadata[r].face_id) # NoId
  /\ CaptureScore(r) >= WATCHLIST_THRESHOLD

\* C1 (as claimed): a returned verification whose extractions succeeded and in
\* which an active watchlist record scores at or above the watchlist threshold
\* answers WATCHLIST_ALERT, however many visitor/resident records score higher.
C1_WatchlistWins ==
  (Returned /\ ExtractionOk /\ \E r \in DOMAIN metadata : WatchlistHit(r))
    => last.status = "watchlist_alert"

\* C2: every verify_entry call that returns has committed exactly one EntryLog,
\* whose id is the returned entry_log_id and whose status is the returned
\* status; the rows that were there before are untouched.
C2_OneLogPerResponse ==
  Returned =>
    /\ Len(entry_logs) = last.pre_logs + 1
    /\ last.entry_log_id = Len(entry_logs)
    /\ entry_logs[last.entry_log_id].status = last.status

C2_Witness ==
  /\ Returned
  /\ last.status = "denied"
  /\ Len(entry_logs) = last.pre_logs + 1

\* C3: once delete_face(face_id) has returned True, the row of face_id stays
\* in the index (a full-depth FaissStore.search still returns it), yet no
\* search_face or search_watchlist call selects it as best_match and no
\* verify_entry decision rests on it.
C3_DeletedNeverSelected ==
  /\ \A f \in deleted :
       /\ RowsOf(f) # {}
       /\ \A r \in RowsOf(f) : \E i \in 1 .. ntotal : search(index[r + 1], ntotal)[i].row = r
  /\ last.op = "verify" => last.match_face \notin deleted
  /\ (deleted # {} /\ last.op = "none") =>
       \A img \in Captures :
         /\ search_face(img, <<"visitor", "resident">>, IdentityTopK, -1,
                        TRUE).best_match.face_id \notin deleted
         /\ search_watchlist(img, TRUE).best_match.face_id \notin deleted

\* C3 witness: a verification whose capture scores at or above the threshold
\* on the row of a deleted face.
C3_Witness ==
  /\ Returned /\ ExtractionOk
  /\ \E r \in DOMAIN metadata :
       /\ metadata[r].face_id \in deleted
       /\ CaptureScore(r) >= _get_threshold_for_type(metadata[r].person_type)

\* Visitor v was enrolled with a face, was APPROVED and inside its validity
\* window when the latest request started, and the request's identity search
\* selected v's face record.
ApprovedVisitorMatched(v) ==
  /\ last.pre_visitors[v].face_id # NoFace
  /\ last.pre_visitors[v].status = "approved"
  /\ last.pre_visitors[v].valid_from <= now
  /\ now <= last.pre_visitors[v].valid_until
  /\ last.match_face = last.pre_visitors[v].face_id
  /\ last.status # "watchlist_alert"

CancelledVisitorShown(v) ==
  /\ last.pre_visitors[v].face_id \in deleted
  /\ last.pre_visitors[v].status = "cancelled"
  /\ last.face = last.pre_visitors[v].full_name

\* No active record other than those of deleted faces reaches the threshold
\* of its population for the latest capture.
NothingElseMatches ==
  \A r \in DOMAIN metadata :
    metadata[r].active =>
      CaptureScore(r) < IF metadata[r].person_type = "watchlist"
                        THEN WATCHLIST_THRESHOLD ELSE VISITOR_THRESHOLD

\* C5 (as claimed): after cancel_visitor, a verification with the same face
\* answers DENIED with the reason that the approval was cancelled.
C5_CancelledDenied ==
  (Returned /\ ExtractionOk) =>
    \A v \in 1 .. Len(last.pre_visitors) :
      CancelledVisitorShown(v) =>
        last.status = "denied" /\ last.denial_reason = "cancelled"

\* C5 (amended): after cancel_visitor the visitor's face record is inactive,
\* so a verification with the same face never selects it; when no other
\* active record reaches its threshold the answer is MANUAL_VERIFICATION for
\* nobody, and the visitor stays CANCELLED.
C5_CancelledNotRecognised ==
  Returned =>
    \A v \in 1 .. Len(last.pre_visitors) :
      CancelledVisitorShown(v) =>
        /\ last.match_face # last.pre_visitors[v].face_id
        /\ NothingElseMatches =>
             /\ last.status = "manual_verification"
             /\ last.visitor_id = NoId
             /\ visitors[v].status = "cancelled"

C5_Witness ==
  /\ Returned /\ ExtractionOk
  /\ \E v \in 1 .. Len(last.pre_visitors) : CancelledVisitorShown(v)
  /\ NothingElseMatches
  /\ last.status = "manual_verification"

\* C6: a verify_entry call that returns WATCHLIST_ALERT has created exactly
\* one WatchlistAlert: for the matched watchlist person, with that person's
\* severity and with entry_log_id the id of the request's EntryLog; a call
\* that returns any other status has created none.
C6_OneAlertPerWatchlistAlert ==
  Returned =>
    IF last.status = "watchlist_alert"
    THEN /\ Len(alerts) = last.pre_alerts + 1
         /\ last.alert_id = Len(alerts)
         /\ alerts[last.alert_id].watchlist_person_id = WatchlistByFace(last.match_face)
         /\ alerts[last.alert_id].severity =
              watchlist[WatchlistByFace(last.match_face)].severity
         /\ alerts[last.alert_id].entry_log_id = last.entry_log_id
         /\ entry_logs[last.entry_log_id].status = "watchlist_alert"
         /\ entry_logs[last.entry_log_id].watchlist_match_id =
              WatchlistByFace(last.match_face)
    ELSE Len(alerts) = last.pre_alerts

C6_Witness ==
  /\ Returned
  /\ last.status = "watchlist_alert"
  /\ alerts[last.alert_id].severity = "medium"

\* C7 (as claimed): when the best visitor match's face_id is carried by no
\* Visitor row, a returned verification answers MANUAL_VERIFICATION, whatever
\* other Visitor rows exist.
C7_OrphanGoesManual ==
  (/\ Returned
   /\ last.match_face # NoFace
   /\ \E r \in RowsOf(last.match_face) : metadata[r].person_type = "visitor"
   /\ \A v \in 1 .. Len(last.pre_visitors) :
        last.pre_visitors[v].face_id # last.match_face)
    => last.status = "manual_verification"

\* C8 (as claimed): a request in which an embedding extraction fails answers
\* MANUAL_VERIFICATION, and the failed extraction is the request's last.
C8_ExtractionFailureGoesManual ==
  (Returned /\ ~ExtractionOk) =>
    /\ last.status = "manual_verification"
    /\ \A i \in 1 .. Len(last.attempts) : ~last.attempts[i] => i = Len(last.attempts)

\* C9 (as claimed): every verify_entry call ends in a response with one of the
\* four statuses; no exception reaches the caller.
C9_AlwaysAResponse ==
  last.op = "verify" => last.status \in EntryStatus

\* The statuses validate_visitor_entry rejects, and the validity window.
RejectedStatus == {"cancelled", "expired", "rejected", "checked_out"}

OutsideWindow(visitor) == now < visitor.valid_from \/ now > visitor.valid_until

\* C10 (as claimed): for a matched visitor with a relational record the answer
\* is DENIED exactly when the status is rejected or the time is outside the
\* window, with the status set to EXPIRED whenever the time is past
\* valid_until; otherwise it is ALLOWED and the status becomes CHECKED_IN.
C10_ValidityRule ==
  (Returned /\ last.visitor_id # NoId) =>
    LET before == last.pre_visitors[last.visitor_id]
        after == visitors[last.visitor_id]
        reject == before.status \in RejectedStatus \/ OutsideWindow(before)
    IN /\ last.status = IF reject THEN "denied" ELSE "allowed"
       /\ (reject /\ now > before.valid_until) => after.status = "expired"
       /\ ~reject => after.status = "checked_in"

\* C10 (amended): as C10, except that the status is set to EXPIRED only when
\* the visitor is denied by the time check (the status is none of the four
\* rejected ones, valid_from has passed and valid_until is past); a visitor
\* denied for any other reason keeps the status it had.
C10_ValidityRuleAmended ==
  (Returned /\ last.visitor_id # NoId) =>
    LET before == last.pre_visitors[last.visitor_id]
        after == visitors[last.visitor_id]
        reject == before.status \in RejectedStatus \/ OutsideWindow(before)
        lapsed == /\ before.status \notin RejectedStatus
                  /\ before.valid_from <= now
                  /\ now > before.valid_until
    IN /\ last.status = IF reject THEN "denied" ELSE "allowed"
       /\ reject => after.status = IF lapsed THEN "expired" ELSE before.status
       /\ ~reject => after.status = "checked_in"

C10_Witness ==
  /\ Returned /\ last.visitor_id # NoId
  /\ last.status = "denied"
  /\ last.pre_visitors[last.visitor_id].status = "approved"
  /\ visitors[last.visitor_id].status = "expired"

\* ------------------------------------------------------- manual override
\* POST /gate/manual-allow/{entry_log_id}: 404 when the log does not exist,
\* else status, person_name and notes are overwritten and committed.
manual_allow_entry(entry_log_id, person_name, notes) ==
  IF entry_log_id \notin 1 .. Len(entry_logs) THEN entry_logs
  ELSE [entry_logs EXCEPT
          ![entry_log_id].status = "allowed",
          ![entry_log_id].person_name = person_name,
          ![entry_log_id].notes = IF notes # "" THEN "manual_approval_with_notes"
                                  ELSE "manual_approval"]

\* POST /gate/manual-deny/{entry_log_id}: 404 when the log does not exist,
\* else status and denial_reason are overwritten and committed.
manual_deny_entry(entry_log_id, denial_reason) ==
  IF entry_log_id \notin 1 .. Len(entry_logs) THEN entry_logs
  ELSE [entry_logs EXCEPT
          ![entry_log_id].status = "denied",
          ![entry_log_id].denial_reason = denial_reason]

ManualAllow(entry_log_id, person_name, notes) ==
  /\ entry_logs' = manual_allow_entry(entry_log_id, person_name, notes)
  /\ last' = Idle
  /\ UNCHANGED <<calls, account>>
  /\ UNCHANGED <<index, metadata, nextFace, visitors, watchlist, alerts, now,
                 deleted, requests, index_file, meta_file>>

ManualDeny(entry_log_id, denial_reason) ==
  /\ entry_logs' = manual_deny_entry(entry_log_id, denial_reason)
  /\ last' = Idle
  /\ UNCHANGED <<calls, account>>
  /\ UNCHANGED <<index, metadata, nextFace, visitors, watchlist, alerts, now,
                 deleted, requests, index_file, meta_file>>

\* What the guard types into the override forms.
GuardNames == {"alice", "mallory"}
GuardNotes == {"", "seen_id_card"}
GuardReasons == {"refused_by_guard"}

\* Enrolment, verification at the gate and the guard's overrides of the
\* entry logs the verifications left.
AuditNext ==
  \/ \E name \in VisitorNames, with_face \in BOOLEAN, scale \in Scales,
        win \in Windows, fault \in VisitorFaults :
       CreateVisitor(name, with_face, scale, win, fault)
  \/ \E name \in WatchNames, with_face \in BOOLEAN, scale \in Scales,
        severity \in Severities, fault \in PersonFaults :
       AddPerson(name, with_face, scale, severity, fault)
  \/ \E img \in Captures, f \in VerifyFaults :
       VerifyEntry(img, f.ext1, f.ext2, f.dbfault)
  \/ \E id \in 1 .. MaxRequests + 1, person_name \in GuardNames,
        notes \in GuardNotes :
       ManualAllow(id, person_name, notes)
  \/ \E id \in 1 .. MaxRequests + 1, denial_reason \in GuardReasons :
       ManualDeny(id, denial_reason)

AuditSpec == Init /\ [][AuditNext]_vars

\* C16 (as claimed): once an EntryLog exists, no later operation changes its
\* status, person_name, denial_reason or notes.
C16_EntryLogImmutable ==
  [][\A i \in 1 .. Len(entry_logs) :
       /\ i <= Len(entry_logs')
       /\ entry_logs'[i].status = entry_logs[i].status
       /\ entry_logs'[i].person_name = entry_logs[i].person_name
       /\ entry_logs'[i].denial_reason = entry_logs[i].denial_reason
       /\ entry_logs'[i].notes = entry_logs[i].notes]_vars

\* -------------------------------------------------------------- enrolment
\* create_visitor and add_person called with every way index_face can fail.
\* last records the call and the details it returned.
EnrolFaults == {"none", "no_face", "save_fail", "meta_fail", "db_fail"}
EnrolPersonFaults == {"none", "no_face", "save_fail", "meta_fail"}

EnrolVisitor(name, with_face, scale, win, fault) ==
  /\ Len(visitors) < MaxVisitors
  /\ Len(index) < MaxRows
  /\ \E out \in {create_visitor(name, with_face, scale, win, fault)} :
        /\ index' = out.face_result.index
        /\ metadata' = out.face_result.metadata
        /\ nextFace' = out.face_result.nextFace
        /\ index_file' = out.face_result.index_file
        /\ meta_file' = out.face_result.meta_file
        /\ visitors' = out.visitors
        /\ last' = [op |-> "create_visitor", with_face |-> with_face,
                    fault |-> fault, indexed |-> out.face_result.success,
                    success |-> out.success, face_indexed |-> out.face_indexed,
                    pre_count |-> Len(visitors)]
  /\ UNCHANGED <<calls, account>>
  /\ UNCHANGED <<watchlist, entry_logs, alerts, now, deleted, requests>>

EnrolPerson(name, with_face, scale, severity, fault) ==
  /\ Len(watchlist) < MaxWatch
  /\ Len(index) < MaxRows
  /\ \E out \in {add_person(name, with_face, scale, severity, fault)} :
        /\ index' = out.face_result.index
        /\ metadata' = out.face_result.metadata
        /\ nextFace' = out.face_result.nextFace
        /\ index_file' = out.face_result.index_file
        /\ meta_file' = out.face_result.meta_file
        /\ watchlist' = out.watchlist
        /\ last' = [op |-> "add_person", with_face |-> with_face,
                    fault |-> fault, indexed |-> out.face_result.success,
                    success |-> out.success, face_indexed |-> out.face_indexed,
                    pre_count |-> Len(watchlist)]
  /\ UNCHANGED <<calls, account>>
  /\ UNCHANGED <<visitors, entry_logs, alerts, now, deleted, requests>>

EnrolNext ==
  \/ \E name \in VisitorNames, with_face \in BOOLEAN, scale \in Scales,
        win \in Windows, fault \in EnrolFaults :
       EnrolVisitor(name, with_face, scale, win, fault)
  \/ \E name \in WatchNames, with_face \in BOOLEAN, scale \in Scales,
        severity \in Severities, fault \in EnrolPersonFaults :
       EnrolPerson(name, with_face, scale, severity, fault)

EnrolSpec == Init /\ [][EnrolNext]_vars

\* The latest call sent an image and index_face answered success = False.
IndexingFailed == last.with_face /\ ~last.indexed

\* C12: when index_face fails (no face, or the index could not be persisted)
\* create_visitor and add_person still succeed and commit one new person
\* record, whose face_id is null, and report face_indexed = False.
C12_EnrolmentSurvivesIndexFailure ==
  /\ (last.op = "create_visitor" /\ IndexingFailed) =>
        /\ last.success
        /\ ~last.face_indexed
        /\ Len(visitors) = last.pre_count + 1
        /\ visitors[Len(visitors)].face_id = NoFace
  /\ (last.op = "add_person" /\ IndexingFailed) =>
        /\ last.success
        /\ ~last.face_indexed
        /\ Len(watchlist) = last.pre_count + 1
        /\ watchlist[Len(watchlist)].face_id = NoFace

\* create_visitor went through although FaissStore._save failed in index_face.
C12_Witness ==
  /\ last.op = "create_visitor"
  /\ last.fault = "save_fail"
  /\ IndexingFailed
  /\ Len(visitors) = last.pre_count + 1
  /\ visitors[Len(visitors)].face_id = NoFace

\* ---------------------------------------------------------------------------
\* Claims on the face store, checked under StoreSpec.
\* The candidates of the latest search_face call: the results of
\* FaissStore.search that have one of the requested types and are active.
SearchCandidates ==
  LET OfType(r) == \E i \in 1 .. Len(last.person_types) :
                      last.person_types[i] = r.person_type
      Usable(r) == OfType(r) /\ r.active
  IN SelectSeq(search(Represent(last.img), last.top_k), Usable)

\* The latest search_face call reported a match and lists row among matches.
Accepted(row) ==
  /\ last.result.match_found
  /\ \E i \in 1 .. Len(last.result.matches) : last.result.matches[i].row = row

\* C11: in search_face a candidate is accepted as a match exactly when its
\* score is at or above the threshold in use (the watchlist threshold for the
\* watchlist search, the visitor threshold for the visitor/resident search):
\* a score equal to the threshold is accepted, a lower one is rejected.
C11_ThresholdInclusive ==
  (last.op = "search_face" /\ last.result.success) =>
    \A i \in 1 .. Len(SearchCandidates) :
      LET c == SearchCandidates[i]
      IN Accepted(c.row) <=> c.score >= _get_threshold_for_type(last.person_types[1])

\* A watchlist candidate scoring exactly the watchlist threshold is accepted,
\* and so is a visitor candidate scoring exactly the visitor threshold.
C11_Witness ==
  /\ last.op = "search_face"
  /\ \E i \in 1 .. Len(SearchCandidates) :
        /\ SearchCandidates[i].score = _get_threshold_for_type(last.person_types[1])
        /\ Accepted(SearchCandidates[i].row)

\* C13: an index_face call with a person_type outside {visitor, resident,
\* watchlist} reports failure, writes no image and leaves the index rows, the
\* metadata map and the two files as they were.
C13_InvalidTypeRejected ==
  [][(last'.op = "index_face" /\ last'.person_type \notin PersonTypes) =>
       /\ ~last'.success
       /\ ~last'.stored
       /\ index' = index
       /\ metadata' = metadata
       /\ index_file' = index_file
       /\ meta_file' = meta_file]_vars

\* index_face was called with an unknown person_type on a store that holds
\* rows, and answered failure.
C13_Witness ==
  /\ last.op = "index_face"
  /\ last.person_type \notin PersonTypes
  /\ ~last.success
  /\ ntotal > 0

\* The latest call was an index_face or delete_face call that reached
\* FaissStore._save, and the write failed.
SaveFailed(call) ==
  \/ /\ call.op = "index_face"
     /\ call.person_type \in PersonTypes
     /\ call.fault \in {"save_fail", "meta_fail"}
  \/ /\ call.op = "delete_face"
     /\ call.found
     /\ ~call.save_ok

\* C14 (as claimed): when persisting fails during add_face or delete_face the
\* call fails and the in-memory vector rows and metadata are exactly what
\* they were before the call.
C14_FailedSaveLeavesMemory ==
  [][SaveFailed(last') =>
       /\ (last'.op = "index_face" => ~last'.success)
       /\ (last'.op = "delete_face" => ~last'.returned)
       /\ index' = index
       /\ metadata' = metadata]_vars

\* The records FaissStore.stats counts, and those among them that are active.
ActiveRows == {r \in DOMAIN metadata : metadata[r].active}

RowsOfType(t) == {r \in DOMAIN metadata : metadata[r].person_type = t}

\* C15 (as claimed): get_stats reports the number of rows, the number of
\* records per population and, as the active count, the number of records
\* whose active flag is true.
C15_StatsCountActive ==
  last.op = "get_stats" =>
    /\ last.result.total_vectors = ntotal
    /\ \A t \in DOMAIN last.result.by_type :
         last.result.by_type[t] = Cardinality(RowsOfType(t))
    /\ \A t \in PersonTypes :
         RowsOfType(t) # {} => t \in DOMAIN last.result.by_type
    /\ last.result.total_faces = Cardinality(ActiveRows)

\* The depths FaissStore.search is called with: 3 by search_watchlist, 5 by
\* search_visitor and verify_entry.
SearchDepths == {WatchlistTopK, IdentityTopK}

\* C18 (as claimed): right after index_face has added embedding e under
\* face_id, FaissStore.search(e, top_k) returns a result for face_id whose
\* score is at or above the high-confidence threshold, and no row of the
\* index scores strictly higher.
C18_EnrolledThenFound ==
  (last.op = "index_face" /\ last.success) =>
    \A top_k \in SearchDepths :
      LET e == Represent(last.img)
          results == search(e, top_k)
          scores == RowScores(normalize(e), 0)
      IN \E i \in 1 .. Len(results) :
           /\ results[i].face_id = last.face_id
           /\ results[i].score >= HIGH_CONFIDENCE_THRESHOLD
           /\ \A r \in 1 .. Len(scores) : scores[r] <= results[i].score

\* C19: the vector index_face stores for an image is the vector search_face
\* queries with for the same image: both paths crop with the same detector,
\* alignment and padding and embed with the same model and parameters, and
\* FaissStore normalises both; every row of the index was prepared the way
\* queries are.
C19_SamePreprocessing ==
  /\ \A r \in 1 .. ntotal : \A img \in Images :
       index[r].prep = SearchEmbedding(img).prep
  /\ (last.op = "index_face" /\ last.success) =>
       /\ ntotal > 0
       /\ index[ntotal] = normalize(SearchEmbedding(last.img))

\* An image was enrolled at a scale other than 1, so normalisation mattered.
C19_Witness ==
  /\ last.op = "index_face"
  /\ last.success
  /\ last.img.scale = 2
  /\ ntotal > 0
  /\ index[ntotal] = normalize(SearchEmbedding(last.img))

\* C20 (as claimed): after any sequence of index_face (add_face) and
\* delete_face calls the metadata map has exactly the keys 0 .. ntotal-1, so
\* ntotal equals the number of entries, and entry i describes the record
\* whose embedding is row i (here: it names the face the row points at).
C20_RowsMatchMetadata ==
  last.op \in {"index_face", "delete_face"} =>
    /\ DOMAIN metadata = 0 .. (ntotal - 1)
    /\ Cardinality(DOMAIN metadata) = ntotal
    /\ \A r \in DOMAIN metadata :
         r < ntotal => metadata[r].person_name = index[r + 1].dir

\* ------------------------------------------------- concurrent store calls
\* The route handlers are plain functions, so the server runs them on worker
\* threads that share the one FaissStore.  FaissStore creates self.lock
\* (faiss_store.py 18) and no method acquires it, so the statements of two
\* calls interleave freely.  calls maps a thread to the call it is inside:
\* its operation, the statement it executes next and its local variables.
Threads == {1, 2}

\* add_face calls started in one behaviour of ConcSpec.
MaxAdds == 2

ConcEnrolments ==
  {[img |-> [face |-> "alice", scale |-> 1], person_type |-> "visitor"],
   [img |-> [face |-> "bob", scale |-> 1], person_type |-> "watchlist"]}

InCall(t) == t \in DOMAIN calls

Enter(t, call) == [u \in DOMAIN calls \cup {t} |-> IF u = t THEN call ELSE calls[u]]

Leave(t) == [u \in DOMAIN calls \ {t} |-> calls[u]]

At(t, pc) == InCall(t) /\ calls[t].pc = pc

\* add_face, lines 44-45: normalise and index.add(vec).
AddVector(t, e) ==
  /\ ~InCall(t)
  /\ nextFace <= MaxAdds
  /\ Len(index) < MaxRows
  /\ index' = Append(index, normalize(IndexEmbedding(e.img)))
  /\ nextFace' = nextFace + 1
  /\ calls' = Enter(t, [op |-> "add_face", pc |-> "faiss_id",
                        face_id |-> nextFace, faiss_id |-> -1,
                        meta |-> [face_id |-> nextFace, person_name |-> e.img.face,
                                  person_type |-> e.person_type, active |-> TRUE]])
  /\ UNCHANGED <<metadata, visitors, watchlist, entry_logs, alerts, now, deleted,
                 requests, last, index_file, meta_file, account>>

\* add_face, line 47: faiss_id = self.index.ntotal - 1
ReadRow(t) ==
  /\ At(t, "faiss_id")
  /\ calls' = Enter(t, [calls[t] EXCEPT !.faiss_id = ntotal - 1, !.pc = "metadata"])
  /\ UNCHANGED <<index, metadata, nextFace, visitors, watchlist, entry_logs, alerts,
                 now, deleted, requests, last, index_file, meta_file, account>>

\* add_face, lines 48-51: self.metadata[str(faiss_id)] = {...}
WriteMeta(t) ==
  /\ At(t, "metadata")
  /\ metadata' = [k \in DOMAIN metadata \cup {calls[t].faiss_id} |->
                    IF k = calls[t].faiss_id THEN calls[t].meta ELSE metadata[k]]
  /\ calls' = Enter(t, [calls[t] EXCEPT !.pc = "write_index"])
  /\ UNCHANGED <<index, nextFace, visitors, watchlist, entry_logs, alerts, now,
                 deleted, requests, last, index_file, meta_file, account>>

\* delete_face, lines 551-553: the first entry with the face_id gets
\* active = False and _save follows; no entry: return False (555-556).
MarkInactive(t, face_id) ==
  /\ ~InCall(t)
  /\ face_id < nextFace
  /\ LET rows == RowsOf(face_id)
     IN IF rows = {}
        THEN /\ UNCHANGED <<metadata, calls>>
             /\ last' = [op |-> "delete_face", face_id |-> face_id, returned |-> FALSE]
        ELSE /\ metadata' = [metadata EXCEPT ![CHOOSE r \in rows : TRUE].active = FALSE]
             /\ calls' = Enter(t, [op |-> "delete_face", pc |-> "write_index",
                                   face_id |-> face_id])
             /\ UNCHANGED last
  /\ UNCHANGED <<index, nextFace, visitors, watchlist, entry_logs, alerts, now,
                 deleted, requests, index_file, meta_file, account>>

\* _save, line 34: faiss.write_index(self.index, INDEX_PATH)
WriteIndex(t) ==
  /\ At(t, "write_index")
  /\ index_file' = index
  /\ calls' = Enter(t, [calls[t] EXCEPT !.pc = "json.dump"])
  /\ UNCHANGED <<index, metadata, nextFace, visitors, watchlist, entry_logs, alerts,
                 now, deleted, requests, last, meta_file, account>>

\* _save, lines 35-36: json.dump(self.metadata, f); the call returns.
DumpMeta(t) ==
  /\ At(t, "json.dump")
  /\ meta_file' = metadata
  /\ calls' = Leave(t)
  /\ last' = [op |-> calls[t].op, face_id |-> calls[t].face_id, returned |-> TRUE]
  /\ UNCHANGED <<index, metadata, nextFace, visitors, watchlist, entry_logs, alerts,
                 now, deleted, requests, index_file, account>>

\* search, lines 56-60: the empty-index return, else index.search gives the
\* scores and ids of the top_k rows.
SearchIndex(t, img, top_k) ==
  /\ ~InCall(t)
  /\ IF ntotal = 0
     THEN /\ last' = [op |-> "search", results |-> << >>]
          /\ UNCHANGED calls
     ELSE /\ \E scores \in {RowScores(normalize(SearchEmbedding(img)), 0)} :
               calls' = Enter(t, [op |-> "search", pc |-> "results",
                                  scores |-> scores,
                                  ids |-> TopRows(scores, 0 .. (ntotal - 1), top_k)])
          /\ UNCHANGED last
  /\ UNCHANGED <<index, metadata, nextFace, visitors, watchlist, entry_logs, alerts,
                 now, deleted, requests, index_file, meta_file, account>>

\* search, lines 62-70: each id is merged with self.metadata.get(str(idx), {}).
MergeResults(t) ==
  /\ At(t, "results")
  /\ last' = [op |-> "search", results |-> Results(calls[t].scores, calls[t].ids)]
  /\ calls' = Leave(t)
  /\ UNCHANGED <<index, metadata, nextFace, visitors, watchlist, entry_logs, alerts,
                 now, deleted, requests, index_file, meta_file, account>>

\* One statement of a store call on thread t.
StoreStep(t) ==
  \/ \E e \in ConcEnrolments : AddVector(t, e)
  \/ ReadRow(t)
  \/ WriteMeta(t)
  \/ \E face_id \in 1 .. MaxAdds : MarkInactive(t, face_id)
  \/ WriteIndex(t)
  \/ DumpMeta(t)
  \/ \E img \in Captures : SearchIndex(t, img, IdentityTopK)
  \/ MergeResults(t)

ConcNext == \E t \in Threads : StoreStep(t)

ConcSpec == Init /\ [][ConcNext]_vars

\* A thread is inside a store call from its first statement to its return.
MutuallyExclusive == Cardinality(DOMAIN calls) <= 1

\* With no call in flight, every face_id handed out owns exactly one row,
\* and every row has its metadata entry.
EachAddOwnsARow ==
  calls = << >> =>
    /\ \A f \in 1 .. (nextFace - 1) : Cardinality(RowsOf(f)) = 1
    /\ DOMAIN metadata = 0 .. (ntotal - 1)

\* Every result a search returned carries the metadata of its row.
SearchSeesMetadata ==
  last.op = "search" =>
    \A i \in DOMAIN last.results : last.results[i].face_id # NoFace

\* C21: add_face, delete_face, the persistence write and search on the
\* shared store exclude one another; two concurrent add_face calls end with
\* two distinct rows, each with its own metadata entry; a search never
\* returns a row whose metadata entry is missing.
C21_StoreCallsExclusive ==
  /\ MutuallyExclusive
  /\ EachAddOwnsARow
  /\ SearchSeesMetadata
\* ------------------------------------------------------ crash inside _save
\* The process dies, at any statement of a call or between calls, and is
\* started again: FaissStore.__init__ reads the index file (22-25) and the
\* metadata file (27-31), each on its own.  One thread, so that nothing but
\* the crash comes between the statements of a call.
CrashRestart ==
  /\ index' = index_file
  /\ metadata' = meta_file
  /\ calls' = << >>
  /\ last' = [op |-> "restart",
              during |-> IF InCall(1) THEN calls[1].pc ELSE "idle"]
  /\ UNCHANGED <<nextFace, visitors, watchlist, entry_logs, alerts, now, deleted,
                 requests, index_file, meta_file, account>>

CrashNext == StoreStep(1) \/ CrashRestart

CrashSpec == Init /\ [][CrashNext]_vars

\* The state a restart leaves, before the next call starts.
Restarted == last.op = "restart" /\ calls = << >>

\* C22: after a crash at any point of _save the index file and the metadata
\* file describe the same rows, and the restarted store has index.ntotal
\* equal to its number of metadata entries.
C22_CrashKeepsFilesInStep ==
  Restarted =>
    /\ DOMAIN meta_file = 0 .. (Len(index_file) - 1)
    /\ ntotal = Cardinality(DOMAIN metadata)
\* ----------------------------------------------------------- row stability
\* Every vector stays at its row.
RowsKeepPosition ==
  /\ Len(index') >= Len(index)
  /\ \A i \in 1 .. Len(index) : index'[i] = index[i]

\* Every metadata entry stays under its key, unchanged or with nothing but
\* its active flag set to false; a new entry goes under a row that had none.
OnlyClearsActive ==
  \A r \in DOMAIN metadata :
    /\ r \in DOMAIN metadata'
    /\ \/ metadata'[r] = metadata[r]
       \/ metadata'[r] = [metadata[r] EXCEPT !.active = FALSE]

\* C23: no store operation decreases index.ntotal or moves an existing record
\* to another row; add_face takes the next free row; delete_face only sets
\* active = false and leaves the vector rows and every other record as they
\* were.
C23_RowsAreStable ==
  [][RowsKeepPosition /\ OnlyClearsActive]_vars
\* ------------------------------------------------- deactivation and index
\* No index record carrying face_id is active.
FaceInactive(face_id) == \A r \in RowsOf(face_id) : ~metadata[r].active

\* C24: whenever a visitor's status is CANCELLED or a watchlist person's
\* is_active is false, the index record with that person's face_id is
\* inactive, whichever of cancel_visitor, remove_person, update_visitor and
\* update_person made the change.
C24_DeactivationReachesIndex ==
  /\ \A id \in DOMAIN visitors :
       visitors[id].status = "cancelled" /\ visitors[id].face_id # NoFace
         => FaceInactive(visitors[id].face_id)
  /\ \A id \in DOMAIN watchlist :
       ~watchlist[id].is_active /\ watchlist[id].face_id # NoFace
         => FaceInactive(watchlist[id].face_id)
\* ---------------------------------------------- unrecognised-face records
\* Rows the identity search of /gate/verify considers: active visitor and
\* resident records.
IdentityCandidates ==
  {r \in DOMAIN metadata :
     /\ r < ntotal
     /\ metadata[r].active
     /\ metadata[r].person_type \in {"visitor", "resident"}}

\* The latest request was answered MANUAL_VERIFICATION after both searches
\* ran and every identity candidate scored below the threshold.
BelowThreshold ==
  /\ Returned
  /\ last.status = "manual_verification"
  /\ ExtractionOk
  /\ IdentityCandidates # {}
  /\ \A r \in IdentityCandidates :
       CaptureScore(r) < _get_threshold_for_type("visitor")

WatchlistSearchOk == Len(last.attempts) >= 1 /\ last.attempts[1]

\* Active watchlist records that score at or above the watchlist threshold
\* for the latest capture.
WatchlistRecordsAtThreshold ==
  {r \in DOMAIN metadata :
     /\ r < ntotal
     /\ metadata[r].person_type = "watchlist"
     /\ metadata[r].active
     /\ CaptureScore(r) >= WATCHLIST_THRESHOLD}

\* The latest request ended in an identity decision.
Decided == Returned /\ last.status \in {"allowed", "denied"}

\* C26: a request is answered ALLOWED or DENIED only after its watchlist
\* search completed successfully and found no active watchlist record at or
\* above the watchlist threshold; a failed watchlist search or a match that
\* could not be resolved never lets the request go on to ALLOWED.
C26_WatchlistClearedFirst ==
  Decided => WatchlistSearchOk /\ WatchlistRecordsAtThreshold = {}
\* ------------------------------------- cancellation racing a verification
\* /gate/verify and /visitors/{id}/cancel are served on different worker
\* threads, each with its own database session; a session's writes reach the
\* table at its commit, while delete_face changes the shared index at once.
\* calls["gate"] and calls["admin"] hold the request each thread is inside.

\* verify_entry up to the visitor lookup (gate.py 41-169): no watchlist
\* match, then the identity search and the Visitor of the best match.  A
\* request that does not reach a visitor is answered MANUAL_VERIFICATION.
GateSearch(img) ==
  /\ RunOpen
  /\ ~InCall("gate")
  /\ ~search_watchlist(img, TRUE).watchlist_match
  /\ \E result \in {search_face(img, <<"visitor", "resident">>, IdentityTopK, -1, TRUE)} :
       LET match == result.best_match
           by_face == VisitorByFace(match.face_id)
           visitor == IF ~(result.match_found /\ match.person_type = "visitor")
                      THEN NoId
                      ELSE IF by_face = NoId /\ match.person_name # ""
                      THEN VisitorByName(match.person_name)
                      ELSE by_face
       IN IF visitor # NoId
          THEN /\ calls' = Enter("gate", [op |-> "verify", pc |-> "validate",
                                          visitor_id |-> visitor,
                                          confidence |-> match.score])
               /\ UNCHANGED <<entry_logs, last>>
          ELSE /\ entry_logs' = Append(entry_logs,
                    EntryLog("manual_verification", "manual", NoId, "", 0, NoId,
                             "no_matching_face", "not_recognized",
                             result.best_score, result.threshold))
               /\ last' = [op |-> "verify", status |-> "manual_verification",
                           visitor_id |-> NoId]
               /\ UNCHANGED calls
  /\ requests' = requests + 1
  /\ UNCHANGED <<index, metadata, nextFace, visitors, watchlist, alerts, now,
                 deleted, index_file, meta_file, account>>

\* verify_entry, gate.py 171-173 and 203-226: validate_visitor_entry reads
\* the committed row; an invalid visitor is answered DENIED.
GateValidate ==
  /\ At("gate", "validate")
  /\ \E checked \in {validate_visitor_entry(calls["gate"].visitor_id)} :
       IF checked.is_valid
       THEN /\ calls' = Enter("gate", [calls["gate"] EXCEPT !.pc = "check_in"])
            /\ UNCHANGED <<visitors, entry_logs, last>>
       ELSE /\ visitors' = checked.visitors
            /\ entry_logs' = Append(entry_logs,
                 EntryLog("denied", "face_recognition", calls["gate"].visitor_id,
                          visitors[calls["gate"].visitor_id].full_name,
                          calls["gate"].confidence, NoId, checked.message, "", 0, 0))
            /\ last' = [op |-> "verify", status |-> "denied",
                        visitor_id |-> calls["gate"].visitor_id]
            /\ calls' = Leave("gate")
  /\ UNCHANGED <<index, metadata, nextFace, watchlist, alerts, now, deleted,
                 requests, index_file, meta_file, account>>

\* verify_entry, gate.py 175-202: the ALLOWED entry log, check_in_visitor
\* (which sets the status without looking at it and commits) and the response.
GateCheckIn ==
  /\ At("gate", "check_in")
  /\ visitors' = check_in_visitor(visitors, calls["gate"].visitor_id)
  /\ entry_logs' = Append(entry_logs,
       EntryLog("allowed", "face_recognition", calls["gate"].visitor_id,
                visitors[calls["gate"].visitor_id].full_name,
                calls["gate"].confidence, NoId, "", "", 0, 0))
  /\ last' = [op |-> "verify", status |-> "allowed",
              visitor_id |-> calls["gate"].visitor_id]
  /\ calls' = Leave("gate")
  /\ UNCHANGED <<index, metadata, nextFace, watchlist, alerts, now, deleted,
                 requests, index_file, meta_file, account>>

\* cancel_visitor, visitor_service.py 210-219: the row is read, its status set
\* in the session and delete_face run on the shared index.
CancelDeleteFace(id) ==
  /\ ~InCall("admin")
  /\ id \in 1 .. Len(visitors)
  /\ visitors[id].status # "cancelled"
  /\ LET face_id == visitors[id].face_id
         del == IF face_id # NoFace THEN delete_face(face_id, TRUE) ELSE NotDeleted
     IN /\ metadata' = del.metadata
        /\ index_file' = del.index_file
        /\ meta_file' = del.meta_file
        /\ deleted' = IF del.returned THEN deleted \cup {face_id} ELSE deleted
  /\ calls' = Enter("admin", [op |-> "cancel_visitor", pc |-> "commit",
                              visitor_id |-> id])
  /\ UNCHANGED <<index, nextFace, visitors, watchlist, entry_logs, alerts, now,
                 requests, last, account>>

\* cancel_visitor, visitor_service.py 221-223: db.commit() writes CANCELLED.
CancelCommit ==
  /\ At("admin", "commit")
  /\ visitors' = [visitors EXCEPT ![calls["admin"].visitor_id].status = "cancelled"]
  /\ last' = [op |-> "cancel_visitor", status |-> "cancelled",
              visitor_id |-> calls["admin"].visitor_id]
  /\ calls' = Leave("admin")
  /\ UNCHANGED <<index, metadata, nextFace, watchlist, entry_logs, alerts, now,
                 deleted, requests, index_file, meta_file, account>>

RaceNext ==
  \/ \E name \in VisitorNames, with_face \in BOOLEAN, scale \in Scales,
        win \in Windows, fault \in VisitorFaults :
       CreateVisitor(name, with_face, scale, win, fault)
  \/ Tick
  \/ \E img \in Captures : GateSearch(img)
  \/ GateValidate
  \/ GateCheckIn
  \/ \E id \in 1 .. MaxVisitors : CancelDeleteFace(id)
  \/ CancelCommit

RaceSpec == Init /\ [][RaceNext]_vars

\* C27: when cancel_visitor runs concurrently with the face verification of
\* the same visitor, the visitor ends CANCELLED in every interleaving: a
\* cancellation, once committed, is not overwritten by the check-in of a
\* request that validated the visitor before it.
C27_CancellationSticks ==
  [][\A id \in DOMAIN visitors :
       visitors[id].status = "cancelled" => visitors'[id].status = "cancelled"]_vars
\* ------------------------------------------------ validity of a visitor
\* Visitor.is_valid (models/visitor.py)
is_valid(visitor) ==
  /\ visitor.status = "approved"
  /\ visitor.valid_from <= now
  /\ now <= visitor.valid_until

\* The latest request matched a visitor and ran validate_visitor_entry on it.
VisitorDecided == Decided /\ last.visitor_id # NoId

\* The matched visitor's row as the request found it.
VisitorBefore == last.pre_visitors[last.visitor_id]

NewActiveRows ==
  {r \in DOMAIN metadata' \ DOMAIN metadata : metadata'[r].active}

\* The enrolment call of the step ended with a committed person record that
\* carries the face_id it indexed.
CommittedWithFace == last'.success /\ last'.face_indexed

\* C29: create_visitor and add_person are atomic with respect to the face
\* index: a call that does not end with a committed person record carrying
\* the new face_id leaves no active index record it created.
C29_EnrolmentAtomic ==
  [][(last'.op \in {"create_visitor", "add_person"} /\ ~CommittedWithFace)
       => NewActiveRows = {}]_vars
\* ------------------------------------------------------------ login lockout
\* account is the User row the login requests are made for: its
\* failed_login_attempts, locked_until (0 for null), last_login (0 for null)
\* and is_active.  now is the clock, in ticks of 15 minutes.

\* Clock ticks followed in a behaviour of AuthSpec.
MaxAuthTime == 4

\* if user.failed_login_attempts >= 5
MAX_FAILED_ATTEMPTS == 5

\* timedelta(minutes=30), in clock ticks
LOCK_DURATION == 2

\* AuthService.authenticate_user for a request naming an existing user or not
\* (email_known) with the right password or not (password_ok): the row
\* afterwards, whether a user is returned, and the error message.
authenticate_user(user, email_known, password_ok) ==
  IF ~email_known
  THEN [user |-> user, ok |-> FALSE, error |-> "invalid"]
  ELSE IF user.locked_until # 0 /\ user.locked_until > now
  THEN [user |-> user, ok |-> FALSE, error |-> "locked"]
  ELSE IF ~user.is_active
  THEN [user |-> user, ok |-> FALSE, error |-> "deactivated"]
  ELSE IF ~password_ok
  THEN LET failed == user.failed_login_attempts + 1
       IN IF failed >= MAX_FAILED_ATTEMPTS
          THEN [user |-> [user EXCEPT !.failed_login_attempts = failed,
                                      !.locked_until = now + LOCK_DURATION],
                ok |-> FALSE, error |-> "locked_now"]
          ELSE [user |-> [user EXCEPT !.failed_login_attempts = failed],
                ok |-> FALSE, error |-> "invalid"]
  ELSE [user |-> [user EXCEPT !.failed_login_attempts = 0, !.locked_until = 0,
                              !.last_login = now],
        ok |-> TRUE, error |-> ""]

\* locked_until is set and in the future.
Locked(user, time) == user.locked_until # 0 /\ user.locked_until > time

\* The failed password checks in a row since the last successful login or
\* the last expiry of a lock, as counted by an observer of the requests.
Streak == IF last.op \in {"login", "tick", "update_user"} THEN last.streak ELSE 0

\* POST /auth/login
Login(email_known, password_ok) ==
  /\ \E out \in {authenticate_user(account, email_known, password_ok)} :
       /\ account' = out.user
       /\ last' = [op |-> "login", ok |-> out.ok, error |-> out.error,
                   streak |-> IF out.ok THEN 0
                              ELSE IF out.error \in {"invalid", "locked_now"}
                                      /\ email_known
                              THEN Streak + 1
                              ELSE Streak]
  /\ UNCHANGED <<index, metadata, nextFace, visitors, watchlist, entry_logs, alerts,
                 now, deleted, requests, index_file, meta_file, calls>>

\* AuthService.update_user with update_data = {is_active}
UpdateUser(is_active) ==
  /\ account' = [account EXCEPT !.is_active = is_active]
  /\ last' = [op |-> "update_user", ok |-> TRUE, error |-> "", streak |-> Streak]
  /\ UNCHANGED <<index, metadata, nextFace, visitors, watchlist, entry_logs, alerts,
                 now, deleted, requests, index_file, meta_file, calls>>

\* Time passes; a lock whose locked_until is reached has expired.
AuthTick ==
  /\ now < MaxAuthTime
  /\ now' = now + 1
  /\ last' = [op |-> "tick", ok |-> TRUE, error |-> "",
              streak |-> IF Locked(account, now) /\ ~Locked(account, now + 1)
                         THEN 0 ELSE Streak]
  /\ UNCHANGED <<index, metadata, nextFace, visitors, watchlist, entry_logs, alerts,
                 deleted, requests, index_file, meta_file, calls, account>>

AuthNext ==
  \/ \E email_known \in BOOLEAN, password_ok \in BOOLEAN : Login(email_known, password_ok)
  \/ \E is_active \in BOOLEAN : UpdateUser(is_active)
  \/ AuthTick

AuthSpec == Init /\ [][AuthNext]_vars

\* The step is a login request.
LoginStep == last'.op = "login" /\ now' = now

\* C30: authenticate_user locks the account only on the fifth failed attempt
\* in a row since the last success or lock expiry; while locked_until is in
\* the future no attempt succeeds or changes the counter; a successful login
\* resets failed_login_attempts to 0 and clears locked_until.
C30_LockoutRule ==
  [][LoginStep =>
       /\ (~Locked(account, now) /\ Locked(account', now))
            => last'.streak = MAX_FAILED_ATTEMPTS
       /\ Locked(account, now)
            => /\ ~last'.ok
               /\ account'.failed_login_attempts = account.failed_login_attempts
       /\ last'.ok
            => /\ account'.failed_login_attempts = 0
               /\ account'.locked_until = 0]_vars
====
